---- MODULE Spec2Model ----
(***************************************************************************)
(* Wallet-binding authentication service (server/index.js with the         *)
(* helpers of server/auth-utils.js): challenge issuance bound to an        *)
(* express-session session, and verification of a wallet-signed proof.     *)
(*                                                                         *)
(* Strings, byte buffers and CBOR items are modelled symbolically: each    *)
(* value is a record naming how it was built, and every conversion the     *)
(* code performs (hex, utf8, CBOR encode/decode, signing) builds or takes  *)
(* apart such a record.                                                    *)
(***************************************************************************)
EXTENDS Integers, Sequences, FiniteSets, TLC

VARIABLES
  utils,     \* which verifySignature the import of index.js:10-15 binds
  workload,  \* "seq": one client request at a time; "conc": overlapping
             \* requests; "live": one request at a time, one body per exit
             \* of the verify handler; "config": wallet-config requests;
             \* "helpers": the helper functions called on their own
  now,       \* Date.now(), in ms
  store,     \* the session store: session id -> stored session
  req,       \* the requests in flight or last answered, one per connection
  hist,      \* per session id: what happened since its last issued challenge
  walletConfig,  \* the wallet config cache of index.js:49
  file,          \* the content of wallet-config.json
  loadCount,     \* the number of loadWalletConfig calls so far
  configReq,     \* the GET /api/wallet-config requests, one per connection
  fnCall,        \* a call of one of the helper functions, and its result
  cardano,       \* window.cardano of the browser
  page           \* the page of client/script.js

configVars == <<walletConfig, file, loadCount, configReq>>

clientVars == <<cardano, page>>

vars ==
  <<utils, workload, now, store, req, hist, configVars, fnCall, clientVars>>

----------------------------------------------------------------------------
(* Program constants *)

TTL_MS == 300000
COOKIE_MAX_AGE == 300000
NONCE_BYTES == 16
SIG_LEN == 64
KEY_LEN == 32
HEX_ADDR_LEN == 114
HEX_ADDR_MIN == 56
HEX_ADDR_MAX == 116

(* Bounds of the model *)

\* The clock is read at 0, ClockSlack ms later, TTL_MS after 0 and
\* ClockSlack - 1 ms after that.
ClockSlack == 2

SessionIds == {"s1", "s2"}
Requests == {"r1", "r2"}
\* The values crypto.randomBytes may return.
RandomValues == {"b1", "b2"}
\* KV: the key pair of the wallet that owns AddrV.  KA: another key pair.
Keys == {"KV", "KA"}

----------------------------------------------------------------------------
(* Strings *)

\* A hex string nonce; len 0 stands for undefined (falsy).
NoNonce == [hex |-> "undefined", len |-> 0, lower |-> TRUE]

randomBytes(n, r) == [rnd |-> r, len |-> n]

\* buf.toString('hex'): two lowercase hex digits per byte.
toStringHex(buf) == [hex |-> buf.rnd, len |-> 2 * buf.len, lower |-> TRUE]

generateNonce8(r) == toStringHex(randomBytes(8, r))

\* crypto.randomBytes(16).toString('hex')
generateNonce(r) == toStringHex(randomBytes(NONCE_BYTES, r))

Nonces == {generateNonce(r) : r \in RandomValues}

Falsy(nonce) == nonce.len = 0

\* A text: a literal prefix followed by a nonce (or by nothing).
NoText == [prefix |-> "undefined", nonce |-> NoNonce]
GarbledText == [prefix |-> "\\uFFFD", nonce |-> NoNonce]
OtherText == [prefix |-> "Transfer this wallet to: ", nonce |-> NoNonce]

\* `Sign this message to authenticate: ${nonce}`
ChallengeMessage(nonce) ==
  [prefix |-> "Sign this message to authenticate: ", nonce |-> nonce]

----------------------------------------------------------------------------
(* Addresses: the JSON value of the address field.  type is its           *)
(* JavaScript type; String(value) is prefix, then len characters all of    *)
(* class chars.  pkh names the key whose hash the address encodes; the     *)
(* code never reads it.                                                    *)

NoAddress ==
  [type |-> "undefined", prefix |-> "undefined", chars |-> "", len |-> 0,
   pkh |-> ""]
NullAddress ==
  [type |-> "null", prefix |-> "null", chars |-> "", len |-> 0, pkh |-> ""]
EmptyAddress ==
  [type |-> "string", prefix |-> "", chars |-> "", len |-> 0, pkh |-> ""]
NumberAddress ==
  [type |-> "number", prefix |-> "", chars |-> "digits", len |-> 1, pkh |-> ""]
AddrV ==
  [type |-> "string", prefix |-> "addr1", chars |-> "lower-alnum", len |-> 98,
   pkh |-> "KV"]
AddrA ==
  [type |-> "string", prefix |-> "", chars |-> "lower-hex", len |-> 114,
   pkh |-> "KA"]
AddrBad ==
  [type |-> "string", prefix |-> "stake1", chars |-> "lower-alnum", len |-> 53,
   pkh |-> "KV"]
\* "addr1" followed by one character
AddrShort ==
  [type |-> "string", prefix |-> "addr1", chars |-> "lower-alnum", len |-> 1,
   pkh |-> "KV"]

LowerAlnumClasses == {"digits", "lower-hex", "lower-alnum"}
HexClasses == {"digits", "lower-hex", "mixed-hex"}

\* The result of a function that may throw.
Thrown(none) == [ok |-> FALSE, val |-> none]
Returned(v) == [ok |-> TRUE, val |-> v]

\* The three patterns are tested on String(address); the console.log then
\* reads address.length, which throws a TypeError on undefined and null.
validateAddress(address) ==
  LET bech32Pattern == /\ address.prefix \in {"addr1", "addr_test1"}
                       /\ address.chars \in LowerAlnumClasses
                       /\ address.len >= 1
      hexPattern == /\ address.prefix = ""
                    /\ address.chars \in HexClasses
                    /\ address.len = HEX_ADDR_LEN
      shortHexPattern == /\ address.prefix = ""
                         /\ address.chars \in HexClasses
                         /\ address.len >= HEX_ADDR_MIN
                         /\ address.len <= HEX_ADDR_MAX
      isValid == bech32Pattern \/ hexPattern \/ shortHexPattern
  IN  IF address.type \in {"undefined", "null"}
      THEN Thrown(FALSE)
      ELSE Returned(isValid)

----------------------------------------------------------------------------
(* Byte buffers.  enc names the encoding that produced the bytes:          *)
(*   "utf8"          Buffer.from(text, 'utf8')                             *)
(*   "Sig_structure" cbor.encode(["Signature1", prot, aad, payload])       *)
(*   "concat"        Buffer.concat([addressBytes, utf8 text])              *)
(*   "cbor-text"     cbor.encode(text)                                     *)
(*   "blake2b"       first 32 bytes of blake2b512(text)                    *)
(*   "binary"        bytes that are no UTF-8 text                          *)

NoData ==
  [enc |-> "none", ctx |-> "", prot |-> "", aad |-> "", penc |-> "",
   addr |-> "", text |-> NoText]

BufferFromUtf8(text) == [NoData EXCEPT !.enc = "utf8", !.text = text]

\* Buffer.from(str, 'ascii'): for the ASCII texts of this model, the bytes
\* of the UTF-8 encoding.
BufferFromAscii(text) == BufferFromUtf8(text)

BinaryData == [NoData EXCEPT !.enc = "binary"]

\* buf.toString('utf8')
toStringUtf8(buf) == IF buf.enc = "utf8" THEN buf.text ELSE GarbledText

\* Buffer.alloc(0), as the aad item of a Sig_structure
EmptyAAD == ""

createSigStructureNoContext(protectedHeaders, externalAAD, payload) ==
  [enc |-> "Sig_structure", ctx |-> "", prot |-> protectedHeaders,
   aad |-> externalAAD, penc |-> payload.enc, addr |-> payload.addr,
   text |-> payload.text]

\* cbor.encode(["Signature1", protectedHeaders, externalAAD, payload])
createCOSESign1SigStructure(protectedHeaders, externalAAD, payload) ==
  [enc |-> "Sig_structure", ctx |-> "Signature1", prot |-> protectedHeaders,
   aad |-> externalAAD, penc |-> payload.enc, addr |-> payload.addr,
   text |-> payload.text]

\* Buffer.from(address, 'hex'): the bytes of a hex address; for a string
\* that is not hex, the bytes of its longest hex prefix ("ad" for "addr1...").
AddressBytes(address) ==
  IF address.prefix = "" /\ address.chars \in HexClasses
  THEN "addressbytes:" \o address.pkh
  ELSE "hexprefix:" \o address.prefix

\* Buffer.concat([Buffer.from(address, 'hex'), Buffer.from(message, 'utf8')])
combinedCIP30(address, message) ==
  [NoData EXCEPT !.enc = "concat", !.addr = AddressBytes(address),
                 !.text = message]

cborEncodeText(message) == [NoData EXCEPT !.enc = "cbor-text", !.text = message]

blake2b256(message) == [NoData EXCEPT !.enc = "blake2b", !.text = message]

\* A hex string: the bytes it spells.  defined = FALSE: the field is absent.
NoHex == [defined |-> FALSE, data |-> NoData]
HexOf(data) == [defined |-> TRUE, data |-> data]

\* stringToHex(str): two hex digits per character code
stringToHex(str) == HexOf(BufferFromUtf8(str))

\* Buffer.from(hex, 'hex')
BufferFromHex(hex) == hex.data

----------------------------------------------------------------------------
(* Ed25519.  A signature is valid for exactly the key and bytes it was     *)
(* made with.                                                              *)

Sign(k, data) == [key |-> k, data |-> data, len |-> SIG_LEN]
GarbageSig == [key |-> "nobody", data |-> NoData, len |-> SIG_LEN]
NoSig == [key |-> "nobody", data |-> NoData, len |-> 0]

Pub(k) == [key |-> k, len |-> KEY_LEN]
NoPub == [key |-> "nobody", len |-> 0]

\* csl.PublicKey.verify(data, signature)
PublicKeyVerify(publicKey, data, signature) ==
  /\ signature.key = publicKey.key
  /\ signature.key \in Keys
  /\ signature.data = data

----------------------------------------------------------------------------
(* The blobs a client submits, as hex strings of CBOR:                     *)
(*   signature: cbor = "array": a CBOR array of n items                    *)
(*              [prot, unprot, payload, sig]; cbor = "invalid": bytes that *)
(*              cbor.decodeFirstSync rejects.  rawLen: the number of bytes *)
(*              of the blob; scan: the 64-byte window the byte scan of the *)
(*              fallback settles on when rawLen allows one.                *)
(*              cbor = "map": a CBOR map (decoded as a Map, or as an       *)
(*              object when all its keys are strings) holding sig under    *)
(*              the key mapKey.                                            *)
(*   key:       cbor = "map": a CBOR map holding x under the integer key   *)
(*              kid; cbor = "object": a CBOR map holding x under the       *)
(*              string key prop; cbor = "invalid" as above.                *)

\* 32 bytes that are the public key of nobody
GarbagePub == [key |-> "nobody", len |-> KEY_LEN]

CoseSign1(prot, unprot, payload, sig) ==
  [cbor |-> "array", n |-> 4, prot |-> prot, unprot |-> unprot,
   payload |-> payload, sig |-> sig, rawLen |-> 120, scan |-> GarbageSig,
   mapKey |-> ""]

ShortSigBlob ==
  [cbor |-> "invalid", n |-> 0, prot |-> "", unprot |-> "",
   payload |-> NoData, sig |-> NoSig, rawLen |-> 10, scan |-> NoSig,
   mapKey |-> ""]

\* A CBOR map with the one entry mapKey: sig
SignatureMap(mapKey, sig) ==
  [cbor |-> "map", n |-> 1, prot |-> "", unprot |-> "",
   payload |-> NoData, sig |-> sig, rawLen |-> 80, scan |-> GarbageSig,
   mapKey |-> mapKey]

CoseKey(kid, x) ==
  [cbor |-> "map", kid |-> kid, x |-> x, rawLen |-> 42, scan |-> GarbagePub,
   prop |-> ""]

\* A CBOR map with the one entry prop: x, prop a text string
KeyObject(prop, x) ==
  [cbor |-> "object", kid |-> 0, x |-> x, rawLen |-> 42, scan |-> GarbagePub,
   prop |-> prop]

ShortKeyBlob ==
  [cbor |-> "invalid", kid |-> 0, x |-> NoPub, rawLen |-> 10, scan |-> NoPub,
   prop |-> ""]

\* auth-utils.js parseCBORSignature
parseCBORSignature(signatureHex) ==
  LET fallback ==
        \* scan the 64-byte windows, then the last 64 bytes
        IF signatureHex.rawLen >= SIG_LEN
        THEN Returned(signatureHex.scan)
        ELSE Thrown(NoSig)
  IN  IF signatureHex.cbor = "invalid" THEN fallback
      ELSE IF signatureHex.cbor = "array" /\ signatureHex.n >= 4
           THEN Returned(signatureHex.sig)
      ELSE IF /\ signatureHex.cbor = "map"
              /\ signatureHex.mapKey \in {"signature", "3"}
           THEN \* decoded.signature, decoded.get(3) || decoded.get('signature')
                Returned(signatureHex.sig)
           ELSE fallback

\* auth-utils.js parseCBORKey
parseCBORKey(keyHex) ==
  LET fallback ==
        \* scan the 32-byte windows, then the last 32 bytes
        IF keyHex.rawLen >= KEY_LEN
        THEN Returned(keyHex.scan)
        ELSE Thrown(NoPub)
      possibleKeys == {-2, -3, 1, 2, 3}
  IN  IF keyHex.cbor = "invalid" THEN fallback
      ELSE IF /\ keyHex.cbor = "map"
              /\ keyHex.kid \in possibleKeys
              /\ keyHex.x.len = KEY_LEN
           THEN Returned(keyHex.x)
      ELSE IF /\ keyHex.cbor = "object"
              /\ keyHex.prop \in {"publicKey", "-2", "-3", "1", "2"}
              /\ keyHex.x.len = KEY_LEN
           THEN Returned(keyHex.x)
           ELSE fallback

\* index.js parseCBORKey: the map entry -2 or nothing
parseCBORKeyCOSE(keyHex) ==
  IF keyHex.cbor = "map" /\ keyHex.kid = -2 /\ keyHex.x.len = KEY_LEN
  THEN Returned(keyHex.x)
  ELSE Thrown(NoPub)

\* Byte strings as sequences of byte values.
Run(b, n) == [i \in 1 .. n |-> b]

\* buf.slice(i, i + n), i counted from 0
Slice(buf, i, n) == SubSeq(buf, i + 1, i + n)

\* buf.filter(x => x === b).length
CountOf(buf, b) == Cardinality({j \in 1 .. Len(buf) : buf[j] = b})

signatureHeuristicAny(candidateSignature) == TRUE

\* "signatures usually don't start with many zeros"
signatureHeuristic(candidateSignature) ==
  LET zeroCount == CountOf(Slice(candidateSignature, 0, 8), 0)
  IN  zeroCount < 4

\* for (let i = 0; i <= signatureBytes.length - 64; i++): the first window
\* from offset i on that the heuristic takes, or <<>>
RECURSIVE scanSignature(_, _)
scanSignature(signatureBytes, i) ==
  IF i > Len(signatureBytes) - SIG_LEN THEN <<>>
  ELSE LET candidateSignature == Slice(signatureBytes, i, SIG_LEN)
       IN  IF signatureHeuristic(candidateSignature)
           THEN candidateSignature
           ELSE scanSignature(signatureBytes, i + 1)

\* The catch block of auth-utils.js parseCBORSignature, on the bytes of the
\* blob
signatureFallback(signatureBytes) ==
  LET found == scanSignature(signatureBytes, 0)
  IN  IF found # <<>> THEN Returned(found)
      ELSE IF Len(signatureBytes) >= SIG_LEN
           THEN Returned(Slice(signatureBytes,
                               Len(signatureBytes) - SIG_LEN, SIG_LEN))
           ELSE Thrown(<<>>)

keyHeuristicFirstByte(candidateKey) == candidateKey[1] # 0

\* "Ed25519 public keys are typically not all zeros or all 0xFF"
keyHeuristic(candidateKey) ==
  LET zeroCount == CountOf(candidateKey, 0)
      ffCount == CountOf(candidateKey, 255)
  IN  zeroCount < 16 /\ ffCount < 16

\* for (let i = 0; i <= keyBytes.length - 32; i++)
RECURSIVE scanKey(_, _)
scanKey(keyBytes, i) ==
  IF i > Len(keyBytes) - KEY_LEN THEN <<>>
  ELSE LET candidateKey == Slice(keyBytes, i, KEY_LEN)
       IN  IF keyHeuristic(candidateKey)
           THEN candidateKey
           ELSE scanKey(keyBytes, i + 1)

\* The catch block of auth-utils.js parseCBORKey, on the bytes of the blob
keyFallback(keyBytes) ==
  LET found == scanKey(keyBytes, 0)
  IN  IF found # <<>> THEN Returned(found)
      ELSE IF Len(keyBytes) >= KEY_LEN
           THEN Returned(Slice(keyBytes, Len(keyBytes) - KEY_LEN, KEY_LEN))
           ELSE Thrown(<<>>)

\* The candidates auth-utils.js verifySignature tries the signature on, in
\* the order it tries them.
messageFormats(address, signature, message, messageHex) ==
  LET signedPayload ==
        IF signature.cbor = "array" /\ signature.n >= 3
        THEN <<[name |-> "extracted-payload", data |-> signature.payload]>>
        ELSE <<>>
  IN  signedPayload \o
      << [name |-> "original-hex",
          data |-> BufferFromHex(IF messageHex.defined THEN messageHex
                                 ELSE stringToHex(message))],
         [name |-> "utf8", data |-> BufferFromUtf8(message)],
         [name |-> "ascii", data |-> BufferFromAscii(message)],
         [name |-> "cip30-combined", data |-> combinedCIP30(address, message)],
         [name |-> "cbor-encoded", data |-> cborEncodeText(message)],
         [name |-> "blake2b-256", data |-> blake2b256(message)] >>

LengthsUnchecked(actualKey, actualSignature) == TRUE

\* if (actualKey.length !== 32) throw ...; if (actualSignature.length !== 64)
\* throw ...
LengthsOk(actualKey, actualSignature) ==
  actualKey.len = KEY_LEN /\ actualSignature.len = SIG_LEN

\* The calls of publicKey.verify that the try block of auth-utils.js
\* verifySignature makes: one per candidate, up to the first that verifies.
verifyCallsCIP30(address, signature, key, message, messageHex) ==
  LET actualSignature == parseCBORSignature(signature)
      actualKey == parseCBORKey(key)
      formats == messageFormats(address, signature, message, messageHex)
      hits == {i \in 1 .. Len(formats) :
                 PublicKeyVerify(actualKey.val, formats[i].data,
                                 actualSignature.val)}
      last == IF hits = {} THEN Len(formats)
              ELSE CHOOSE i \in hits : \A j \in hits : i <= j
  IN  IF actualSignature.ok /\ actualKey.ok
         /\ LengthsOk(actualKey.val, actualSignature.val)
      THEN [i \in 1 .. last |->
              [name |-> formats[i].name, publicKey |-> actualKey.val,
               data |-> formats[i].data, signature |-> actualSignature.val]]
      ELSE <<>>

\* The call of publicKey.verify that the try block of index.js
\* verifySignature makes.
verifyCallsCOSE(address, signature, key, message, messageHex) ==
  LET actualKey == parseCBORKeyCOSE(key)
      sigStructure ==
        createCOSESign1SigStructure(signature.prot, EmptyAAD, signature.payload)
  IN  IF /\ signature.cbor = "array"
         /\ signature.n >= 4
         /\ actualKey.ok
         /\ LengthsOk(actualKey.val, signature.sig)
      THEN <<[name |-> "Sig_structure", publicKey |-> actualKey.val,
              data |-> sigStructure, signature |-> signature.sig]>>
      ELSE <<>>

Verifies(call) == PublicKeyVerify(call.publicKey, call.data, call.signature)

\* The try block of auth-utils.js verifySignature ("proper CIP-30
\* support"): it throws when a blob cannot be parsed or has the wrong
\* length, returns true as soon as the parsed signature verifies on one of
\* the candidates, and false when it verifies on none.
tryVerifyCIP30(address, signature, key, message, messageHex) ==
  LET calls == verifyCallsCIP30(address, signature, key, message, messageHex)
  IN  IF calls = <<>> THEN Thrown(FALSE)
      ELSE Returned(\E i \in DOMAIN calls : Verifies(calls[i]))

\* The try block of index.js verifySignature ("proper COSE_Sign1 support"):
\* the signature must verify on the Sig_structure and the payload must be
\* the message.
tryVerifyCOSE(address, signature, key, message, messageHex) ==
  LET calls == verifyCallsCOSE(address, signature, key, message, messageHex)
  IN  IF calls = <<>> THEN Thrown(FALSE)
      ELSE Returned(/\ Verifies(calls[1])
                    /\ toStringUtf8(signature.payload) = message)

rethrowVerificationError(outcome) == outcome

\* catch (error) { console.error(...); return false; }
catchVerificationError(outcome) ==
  IF outcome.ok THEN outcome ELSE Returned(FALSE)

\* The promise that auth-utils.js verifySignature returns: ok when it is
\* fulfilled, with val its value.
verifySignatureCIP30(address, signature, key, message, messageHex) ==
  catchVerificationError(
    tryVerifyCIP30(address, signature, key, message, messageHex))

\* The promise that index.js verifySignature returns.
verifySignatureCOSE(address, signature, key, message, messageHex) ==
  catchVerificationError(
    tryVerifyCOSE(address, signature, key, message, messageHex))

verifySignatureUncaught(address, signature, key, message, messageHex) ==
  IF utils = "auth-utils.js"
  THEN tryVerifyCIP30(address, signature, key, message, messageHex)
  ELSE tryVerifyCOSE(address, signature, key, message, messageHex)

\* The verifySignature that './auth-utils.js' exports to index.js.
verifySignature(address, signature, key, message, messageHex) ==
  IF utils = "auth-utils.js"
  THEN verifySignatureCIP30(address, signature, key, message, messageHex)
  ELSE verifySignatureCOSE(address, signature, key, message, messageHex)

\* The calls of publicKey.verify it makes.
verifyCalls(address, signature, key, message, messageHex) ==
  IF utils = "auth-utils.js"
  THEN verifyCallsCIP30(address, signature, key, message, messageHex)
  ELSE verifyCallsCOSE(address, signature, key, message, messageHex)

----------------------------------------------------------------------------
(* Sessions (express-session with its default in-memory store).            *)

NoSession ==
  [exists |-> FALSE, nonce |-> NoNonce, address |-> NoAddress,
   timestamp |-> 0, expires |-> 0]

\* The store drops a session whose cookie has expired when it is looked up.
StoreGet(st, sid, t) ==
  IF st[sid].exists /\ st[sid].expires <= t
  THEN [st EXCEPT ![sid] = NoSession]
  ELSE st

\* End of a response whose handler left the session unmodified: the store
\* renews the cookie of the session the request came with, if it still
\* holds it.
StoreTouch(st, sid, known, t) ==
  LET st1 == StoreGet(st, sid, t)
  IN  IF ~known THEN st
      ELSE IF st1[sid].exists
           THEN [st1 EXCEPT ![sid].expires = t + COOKIE_MAX_AGE]
           ELSE st1

\* req.session.destroy()
StoreDestroy(st, sid) == [st EXCEPT ![sid] = NoSession]

StoreSaveEverywhere(st, sid, session, t) ==
  [s \in SessionIds |-> [session EXCEPT !.exists = TRUE,
                                        !.expires = t + COOKIE_MAX_AGE]]

\* End of a response whose handler modified the session: it is saved.
StoreSave(st, sid, session, t) ==
  [st EXCEPT ![sid] = [session EXCEPT !.exists = TRUE,
                                      !.expires = t + COOKIE_MAX_AGE]]

\* issued counts the challenges issued to the session (2: two or more); the
\* other fields tell what happened since the last of them.
NoHist == [rejected |-> FALSE, attempted |-> FALSE, bound |-> 0, issued |-> 0]

Issued(h) ==
  [NoHist EXCEPT !.issued = IF h.issued < 2 THEN h.issued + 1 ELSE 2]

----------------------------------------------------------------------------
(* Requests *)

NoBody ==
  [address |-> NoAddress, signature |-> ShortSigBlob, key |-> ShortKeyBlob,
   message |-> NoText, messageHex |-> NoHex]

\* The JSON body of a verify-wallet response: {error} or
\* {success: true, message, address}
NoResBody == [success |-> FALSE, message |-> "", address |-> NoAddress]

BoundResponse(address) ==
  [success |-> TRUE, message |-> "Wallet bound successfully!",
   address |-> address]

FreeReq ==
  [pc |-> "free", kind |-> "none", sid |-> "s1", known |-> FALSE,
   session |-> NoSession, body |-> NoBody, status |-> 0,
   resNonce |-> NoNonce, resMessage |-> NoText, at |-> 0,
   after |-> NoSession, consulted |-> FALSE, isValid |-> FALSE,
   threw |-> FALSE, resBody |-> NoResBody,
   prior |-> NoHist, jsonCalls |-> 0]

InFlight(r) == req[r].pc # "free"

\* A handler stopped at `await verifySignature(...)`.  The promise it awaits
\* is settled when it is returned (verifySignature awaits nothing), so the
\* handler resumes as a microtask, before the callback of any other request.
MicrotaskPending == \E q \in Requests : req[q].pc = "awaiting"

\* What clients send.
ProtectedHeaders == "a201276761646472657373"
UnprotectedHeaders == "a166686173686564f4"

\* The unprotected-header items an envelope may carry: {hashed: false},
\* {hashed: true}, {}.
UnprotectedValues == {UnprotectedHeaders, "a166686173686564f5", "a0"}

Payload(nonce) == BufferFromUtf8(ChallengeMessage(nonce))

\* The proof a CIP-30 wallet holding key k returns for the challenge nonce.
WalletProof(nonce, k) ==
  CoseSign1(ProtectedHeaders, UnprotectedHeaders, Payload(nonce),
            Sign(k, createCOSESign1SigStructure(ProtectedHeaders, EmptyAAD,
                                                Payload(nonce))))

\* An envelope whose signature is over the bare payload bytes.
BarePayloadProof(nonce, k) ==
  CoseSign1(ProtectedHeaders, UnprotectedHeaders, Payload(nonce),
            Sign(k, Payload(nonce)))

\* A well-signed envelope that carries another text.
SubstitutedProof(k) ==
  CoseSign1(ProtectedHeaders, UnprotectedHeaders, BufferFromUtf8(OtherText),
            Sign(k, createCOSESign1SigStructure(ProtectedHeaders, EmptyAAD,
                                                BufferFromUtf8(OtherText))))

\* An envelope whose 64 signature bytes were altered.
TamperedProof(nonce) ==
  CoseSign1(ProtectedHeaders, UnprotectedHeaders, Payload(nonce), GarbageSig)

\* A canonical envelope whose signature item is one byte short.
WrongLengthProof(nonce, k) ==
  [WalletProof(nonce, k) EXCEPT !.sig.len = SIG_LEN - 1]

\* No envelope: the 64 bytes of a signature over the message text.
RawProof(nonce, k) ==
  [cbor |-> "invalid", n |-> 0, prot |-> "", unprot |-> "",
   payload |-> NoData, sig |-> NoSig, rawLen |-> SIG_LEN,
   scan |-> Sign(k, Payload(nonce)), mapKey |-> ""]

\* No COSE key: the 32 bytes of a public key.
RawKeyBlob(k) ==
  [cbor |-> "invalid", kid |-> 0, x |-> NoPub, rawLen |-> KEY_LEN,
   scan |-> Pub(k), prop |-> ""]

N1 == generateNonce("b1")
N2 == generateNonce("b2")

\* The 64-byte values an envelope may carry as its signature item.
SignatureValues ==
  {GarbageSig} \cup
  { Sign(k, d) :
      k \in Keys,
      d \in { Payload(N1), Payload(N2),
              createCOSESign1SigStructure(ProtectedHeaders, EmptyAAD,
                                          Payload(N1)),
              createCOSESign1SigStructure(ProtectedHeaders, EmptyAAD,
                                          Payload(N2)) } }

KeyBlob(k) == CoseKey(-2, Pub(k))

\* The (signature, key) pairs clients submit.
Proofs ==
  { [signature |-> WalletProof(N1, "KV"), key |-> KeyBlob("KV")],
    [signature |-> WalletProof(N2, "KV"), key |-> KeyBlob("KV")],
    [signature |-> WalletProof(N1, "KA"), key |-> KeyBlob("KA")],
    [signature |-> WalletProof(N1, "KV"), key |-> KeyBlob("KA")],
    [signature |-> BarePayloadProof(N1, "KV"), key |-> KeyBlob("KV")],
    [signature |-> SubstitutedProof("KV"), key |-> KeyBlob("KV")],
    [signature |-> TamperedProof(N1), key |-> KeyBlob("KV")],
    [signature |-> ShortSigBlob, key |-> KeyBlob("KV")],
    [signature |-> WalletProof(N1, "KV"), key |-> ShortKeyBlob],
    [signature |-> WrongLengthProof(N1, "KV"), key |-> KeyBlob("KV")],
    [signature |-> RawProof(N1, "KV"), key |-> RawKeyBlob("KV")] }

Messages == {ChallengeMessage(n) : n \in Nonces}

MessageHexes ==
  { NoHex,
    HexOf(createCOSESign1SigStructure(ProtectedHeaders, EmptyAAD, Payload(N1))) }

\* Every proof without messageHex (the verifier then takes the hex of
\* message), and the wallet's proof with each messageHex.
VerifyBodiesSeq ==
  { [address |-> a, signature |-> p.signature, key |-> p.key,
     message |-> m, messageHex |-> NoHex] :
      a \in {AddrV, AddrA}, p \in Proofs, m \in Messages }
  \cup
  { [address |-> a, signature |-> WalletProof(N1, "KV"),
     key |-> KeyBlob("KV"), message |-> m, messageHex |-> h] :
      a \in {AddrV, AddrA}, m \in Messages, h \in MessageHexes }

VerifyBodiesConc ==
  { [address |-> AddrV, signature |-> WalletProof(N1, "KV"),
     key |-> KeyBlob("KV"), message |-> ChallengeMessage(N1),
     messageHex |-> NoHex] }

\* One body for each exit of the verify handler.
VerifyBodiesLive ==
  { [address |-> a, signature |-> p, key |-> KeyBlob("KV"),
     message |-> m, messageHex |-> NoHex] :
      a \in {AddrV, AddrA},
      p \in {WalletProof(N1, "KV"), TamperedProof(N1)},
      m \in Messages }

VerifyBodies ==
  CASE workload = "seq" -> VerifyBodiesSeq
    [] workload = "live" -> VerifyBodiesLive
    [] OTHER -> VerifyBodiesConc

ChallengeBodiesSeq ==
  {[NoBody EXCEPT !.address = a] :
     a \in {AddrV, AddrA, AddrBad, AddrShort, NoAddress, NullAddress,
            EmptyAddress, NumberAddress}}

ChallengeBodiesConc == {[NoBody EXCEPT !.address = AddrV]}

ChallengeBodiesLive == {[NoBody EXCEPT !.address = a] : a \in {AddrV, AddrBad}}

ChallengeBodies ==
  CASE workload = "seq" -> ChallengeBodiesSeq
    [] workload = "live" -> ChallengeBodiesLive
    [] OTHER -> ChallengeBodiesConc

Cookies == IF workload \in {"seq", "live"} THEN {"s1"} ELSE SessionIds

\* A sequential client waits for the answer before its next request.
MayReceive(r) ==
  /\ ~InFlight(r)
  /\ ~MicrotaskPending
  /\ workload \in {"seq", "live"} => r = "r1"

\* The session middleware: load the session of the cookie, or generate a
\* new session under an id no store entry and no request in flight holds.
FreshIds(st, r) ==
  {s \in SessionIds :
     /\ ~st[s].exists
     /\ \A q \in Requests \ {r} : InFlight(q) => req[q].sid # s}

Receive(r, kind, cookie, body) ==
  LET st1 == StoreGet(store, cookie, now)
      known == st1[cookie].exists
  IN  /\ MayReceive(r)
      /\ known \/ FreshIds(st1, r) # {}
      /\ LET sid == IF known THEN cookie
                    ELSE IF "s1" \in FreshIds(st1, r) THEN "s1"
                    ELSE CHOOSE s \in FreshIds(st1, r) : TRUE
             h == IF known THEN hist[sid] ELSE NoHist
         IN  /\ req' = [req EXCEPT ![r] =
                          [FreeReq EXCEPT !.pc = kind, !.kind = kind,
                                          !.sid = sid, !.known = known,
                                          !.session = st1[sid], !.body = body,
                                          !.prior = h]]
             /\ hist' = [hist EXCEPT ![sid] = h]
      /\ store' = st1
      /\ UNCHANGED <<configVars, fnCall, clientVars, utils, workload, now>>

ReceiveChallenge(r) ==
  \E cookie \in Cookies, body \in ChallengeBodies :
    Receive(r, "challenge", cookie, body)

ReceiveVerify(r) ==
  \E cookie \in Cookies, body \in VerifyBodies :
    Receive(r, "verify", cookie, body)

----------------------------------------------------------------------------
(* The handlers of index.js *)

\* The outcome of a verification attempt, as the session's history keeps it.
Rejected(h) == [h EXCEPT !.rejected = TRUE, !.attempted = TRUE]
Bound(h) ==
  [h EXCEPT !.attempted = TRUE,
            !.bound = IF h.bound < 2 THEN h.bound + 1 ELSE 2]

RespondDestroying(r, status, at) ==
  LET st1 == StoreDestroy(store, req[r].sid)
  IN  /\ store' = st1
      /\ req' = [req EXCEPT ![r].pc = "done", ![r].status = status,
                            ![r].at = at, ![r].after = st1[req[r].sid],
                            ![r].jsonCalls = @ + 1]

\* res.status(status).json(...) by a handler that ran at time `at` and left
\* the session unmodified
Respond(r, status, at) ==
  LET st1 == StoreTouch(store, req[r].sid, req[r].known, now)
  IN  /\ store' = st1
      /\ req' = [req EXCEPT ![r].pc = "done", ![r].status = status,
                            ![r].at = at, ![r].after = st1[req[r].sid],
                            ![r].jsonCalls = @ + 1]

\* app.post('/api/auth-challenge')
HandleChallenge(r) ==
  /\ req[r].pc = "challenge"
  /\ ~MicrotaskPending
  /\ LET address == req[r].body.address
         sid == req[r].sid
         valid == validateAddress(address)
     IN  IF ~valid.ok
         THEN \* the exception reaches the error handler of express
              /\ Respond(r, 500, now)
              /\ UNCHANGED hist
         ELSE IF ~valid.val
         THEN /\ Respond(r, 400, now)
              /\ UNCHANGED hist
         ELSE \E rnd \in RandomValues :
                LET nonce == generateNonce(rnd)
                    session == [req[r].session EXCEPT
                                  !.nonce = nonce, !.address = address,
                                  !.timestamp = now]
                    st1 == StoreSave(store, sid, session, now)
                IN  /\ store' = st1
                    /\ req' = [req EXCEPT
                                 ![r].pc = "done", ![r].status = 200,
                                 ![r].session = st1[sid],
                                 ![r].resNonce = nonce,
                                 ![r].resMessage = ChallengeMessage(nonce),
                                 ![r].at = now, ![r].after = st1[sid],
                                 ![r].jsonCalls = @ + 1]
                    /\ hist' = [hist EXCEPT ![sid] = Issued(@)]
  /\ UNCHANGED <<configVars, fnCall, clientVars, utils, workload, now>>

SessionInvalidNonceOnly(session, address) == Falsy(session.nonce)

\* if (!req.session.nonce || req.session.address !== address)
SessionInvalid(session, address) ==
  Falsy(session.nonce) \/ session.address # address

SessionExpiredNever(session, t) == FALSE

\* if (Date.now() - req.session.timestamp > 300000)
SessionExpired(session, t) == t - session.timestamp > TTL_MS

\* app.post('/api/verify-wallet'), up to the await
CheckVerify(r) ==
  /\ req[r].pc = "verify"
  /\ ~MicrotaskPending
  /\ LET b == req[r].body
         session == req[r].session
         sid == req[r].sid
         expectedMessage == ChallengeMessage(session.nonce)
     IN  IF SessionInvalid(session, b.address)
         THEN /\ Respond(r, 400, now)
              /\ hist' = [hist EXCEPT ![sid] = Rejected(@)]
         ELSE IF SessionExpired(session, now)
         THEN LET st1 == StoreDestroy(store, sid)
              IN  /\ store' = st1
                  /\ req' = [req EXCEPT ![r].pc = "done", ![r].status = 400,
                                        ![r].at = now, ![r].after = st1[sid],
                                        ![r].jsonCalls = @ + 1]
                  /\ hist' = [hist EXCEPT ![sid] = Rejected(@)]
         ELSE IF b.message # expectedMessage
         THEN /\ Respond(r, 400, now)
              /\ hist' = [hist EXCEPT ![sid] = Rejected(@)]
         ELSE LET promise == verifySignature(b.address, b.signature, b.key,
                                             b.message, b.messageHex)
              IN  /\ req' = [req EXCEPT
                               ![r].pc = "awaiting", ![r].at = now,
                               ![r].consulted = TRUE,
                               ![r].threw = ~promise.ok,
                               ![r].isValid = promise.ok /\ promise.val]
              /\ UNCHANGED <<store, hist>>
  /\ UNCHANGED <<configVars, fnCall, clientVars, utils, workload, now>>

\* The handler with `res.status(401).json(...)` not returned from: it goes on
\* to destroy the session and to call res.json again, which throws into the
\* catch block, which calls res.status(500).json.
ResumeVerifyNoReturn(r) ==
  /\ req[r].pc = "awaiting"
  /\ LET sid == req[r].sid
         st1 == StoreDestroy(store, sid)
     IN  IF req[r].threw
         THEN /\ Respond(r, 500, req[r].at)
              /\ hist' = [hist EXCEPT ![sid] = Rejected(@)]
         ELSE /\ store' = st1
              /\ req' = [req EXCEPT
                           ![r].pc = "done",
                           ![r].status = IF req[r].isValid THEN 200 ELSE 401,
                           ![r].resBody =
                             IF req[r].isValid
                             THEN BoundResponse(req[r].body.address)
                             ELSE NoResBody,
                           ![r].after = st1[sid],
                           ![r].jsonCalls =
                             IF req[r].isValid THEN @ + 1 ELSE @ + 3]
              /\ hist' = [hist EXCEPT ![sid] =
                            IF req[r].isValid THEN Bound(@) ELSE Rejected(@)]
  /\ UNCHANGED <<configVars, fnCall, clientVars, utils, workload, now>>

\* app.post('/api/verify-wallet'), after the await
ResumeVerify(r) ==
  /\ req[r].pc = "awaiting"
  /\ LET sid == req[r].sid
     IN  IF req[r].threw
         THEN \* catch (error): 'Verification failed: ' + error.message
              /\ Respond(r, 500, req[r].at)
              /\ hist' = [hist EXCEPT ![sid] = Rejected(@)]
         ELSE IF ~req[r].isValid
         THEN /\ Respond(r, 401, req[r].at)
              /\ hist' = [hist EXCEPT ![sid] = Rejected(@)]
         ELSE LET st1 == StoreDestroy(store, sid)
              IN  /\ store' = st1
                  /\ req' = [req EXCEPT
                               ![r].pc = "done", ![r].status = 200,
                               ![r].resBody =
                                 BoundResponse(req[r].body.address),
                               ![r].after = st1[sid],
                               ![r].jsonCalls = @ + 1]
                  /\ hist' = [hist EXCEPT ![sid] = Bound(@)]
  /\ UNCHANGED <<configVars, fnCall, clientVars, utils, workload, now>>

\* The client has read the response; the connection takes the next request.
Release(r) ==
  /\ req[r].pc = "done"
  /\ req' = [req EXCEPT ![r] = FreeReq]
  /\ UNCHANGED <<configVars, fnCall, clientVars, utils, workload, now, store, hist>>

ClockValuesSeq == {0, ClockSlack, TTL_MS, TTL_MS + ClockSlack - 1}

ClockValuesConc == {0, TTL_MS + ClockSlack - 1}

ClockValues ==
  IF workload \in {"seq", "live"} THEN ClockValuesSeq ELSE ClockValuesConc

\* Time passes between requests: a request is handled within the millisecond
\* in which it is received.
Tick ==
  /\ \A r \in Requests : req[r].pc \in {"free", "done"}
  /\ \E t \in ClockValues :
       /\ t > now
       /\ now' = t
  /\ UNCHANGED <<configVars, fnCall, clientVars, utils, workload, store, req, hist>>

----------------------------------------------------------------------------
(* GET /api/wallet-config *)

ConfigRequests == {"g1", "g2", "g3"}

\* The calls of loadWalletConfig are counted up to MaxLoads.
MaxLoads == 3

\* What JSON.parse(await readFile(configPath, 'utf8')) gives for the file:
\* a configuration object, the value null, or an exception (no file, or no
\* JSON).
FileContents == {"config", "null", "missing"}

NoConfig == [defined |-> FALSE, truthy |-> FALSE, json |-> "undefined"]

JSONParse(content) ==
  IF content = "missing" THEN Thrown(NoConfig)
  ELSE Returned([defined |-> TRUE, truthy |-> content # "null",
                 json |-> content])

\* auth-utils.js loadWalletConfig: the value read, or the Error thrown
loadWalletConfig(content) ==
  LET parsed == JSONParse(content)
  IN  IF parsed.ok THEN parsed
      ELSE Thrown([NoConfig EXCEPT
                     !.json = "Wallet config file missing or invalid: "])

FreeConfigReq ==
  [pc |-> "free", status |-> 0, resBody |-> NoConfig]

\* app.get('/api/wallet-config'), up to the await: the cached value is sent
\* at once; without one, loadWalletConfig is called and the handler waits
\* for the file.
GetWalletConfig(g) ==
  /\ configReq[g].pc = "free"
  /\ IF walletConfig.truthy
     THEN /\ configReq' = [configReq EXCEPT
                             ![g] = [pc |-> "done", status |-> 200,
                                     resBody |-> walletConfig]]
          /\ UNCHANGED loadCount
     ELSE /\ loadCount < MaxLoads
          /\ loadCount' = loadCount + 1
          /\ configReq' = [configReq EXCEPT ![g].pc = "reading"]
  /\ UNCHANGED <<walletConfig, file>>
  /\ UNCHANGED <<utils, workload, now, store, req, hist, fnCall, clientVars>>

\* app.get('/api/wallet-config'), after the await
ResumeWalletConfig(g) ==
  /\ configReq[g].pc = "reading"
  /\ LET loaded == loadWalletConfig(file)
     IN  IF loaded.ok
         THEN /\ walletConfig' = loaded.val
              /\ configReq' = [configReq EXCEPT
                                 ![g] = [pc |-> "done", status |-> 200,
                                         resBody |-> loaded.val]]
         ELSE \* catch (error): res.status(500).json({error: error.message})
              /\ configReq' = [configReq EXCEPT
                                 ![g] = [pc |-> "done", status |-> 500,
                                         resBody |-> loaded.val]]
              /\ UNCHANGED walletConfig
  /\ UNCHANGED <<file, loadCount>>
  /\ UNCHANGED <<utils, workload, now, store, req, hist, fnCall, clientVars>>

\* The client has read the response.
ReleaseConfig(g) ==
  /\ configReq[g].pc = "done"
  /\ configReq' = [configReq EXCEPT ![g] = FreeConfigReq]
  /\ UNCHANGED <<walletConfig, file, loadCount>>
  /\ UNCHANGED <<utils, workload, now, store, req, hist, fnCall, clientVars>>

----------------------------------------------------------------------------

(* The helper functions on their own: a call is made with an argument and *)
(* returns or throws.                                                      *)

NoError == [name |-> "", message |-> ""]

NoCall ==
  [fn |-> "none", pc |-> "none", signatureHex |-> ShortSigBlob,
   keyHex |-> ShortKeyBlob, bytes |-> <<>>, error |-> NoError,
   threw |-> FALSE, signature |-> NoSig, key |-> NoPub, window |-> <<>>,
   status |-> 0, body |-> ""]

Called(fn) == [NoCall EXCEPT !.fn = fn, !.pc = "called"]

\* The signature blobs given to parseCBORSignature.  The window the byte
\* scan would settle on is never the item the blob holds.
SignatureBlobs ==
  LET sigs == { Sign("KV", Payload(N1)),
                [Sign("KV", Payload(N1)) EXCEPT !.len = SIG_LEN - 1],
                [Sign("KV", Payload(N1)) EXCEPT !.len = SIG_LEN + 1],
                [Sign("KV", Payload(N1)) EXCEPT !.len = 0] }
      arrays == { [CoseSign1(ProtectedHeaders, UnprotectedHeaders,
                             Payload(N1), sig)
                     EXCEPT !.n = n, !.rawLen = len] :
                    sig \in sigs, n \in {3, 4, 5}, len \in {60, 120} }
      maps == { [SignatureMap(mapKey, sig) EXCEPT !.rawLen = len] :
                  mapKey \in {"signature", "3", "sig"}, sig \in sigs,
                  len \in {60, 120} }
  IN  arrays \cup maps \cup {ShortSigBlob, RawProof(N1, "KA")}

\* The key blobs given to parseCBORKey.
KeyBlobs ==
  LET keys == { Pub("KV"), [Pub("KV") EXCEPT !.len = KEY_LEN - 1],
                [Pub("KV") EXCEPT !.len = KEY_LEN + 1] }
      maps == { [CoseKey(kid, x) EXCEPT !.rawLen = len] :
                  kid \in {-2, -3, -1, 1, 2, 3, 4}, x \in keys,
                  len \in {30, 42} }
      objects == { [KeyObject(prop, x) EXCEPT !.rawLen = len] :
                     prop \in {"publicKey", "-2", "-3", "1", "2", "3", "x"},
                     x \in keys, len \in {30, 42} }
  IN  maps \cup objects \cup {ShortKeyBlob, RawKeyBlob("KA")}

\* The bytes given to the fallback of parseCBORSignature: zeros, then
\* ones, then zeros, then 0xFF bytes.
SignatureBytes ==
  { Run(0, a) \o Run(1, b) \o Run(0, c) \o Run(255, d) :
      a \in 0 .. 7, b \in {0, 1, 5, 60}, c \in {0, 4, 64}, d \in {0, 3} }

\* The bytes given to the fallback of parseCBORKey: zeros, then 0xFF bytes,
\* then ones.
KeyBytes ==
  { Run(0, a) \o Run(255, b) \o Run(1, c) :
      a \in {0, 15, 16, 17, 33}, b \in {0, 15, 16, 17, 33},
      c \in {0, 1, 16, 32} }

\* The exceptions the try block of the verify-wallet handler may end with.
Errors ==
  { [name |-> "TypeError",
     message |-> "Cannot read properties of undefined (reading 'destroy')"],
    [name |-> "Error",
     message |-> "Invalid signature length: 63 (expected 64)"],
    [name |-> "RangeError", message |-> "Maximum call stack size exceeded"] }

\* catch (error): res.status(500).json({error: 'Verification failed: ' +
\* error.message})
verificationFailed(error) ==
  [status |-> 500, error |-> "Verification failed: " \o error.message]

CallParseCBORSignature ==
  /\ fnCall.fn = "parseCBORSignature" /\ fnCall.pc = "called"
  /\ LET result == parseCBORSignature(fnCall.signatureHex)
     IN  fnCall' = [fnCall EXCEPT !.pc = "returned", !.threw = ~result.ok,
                                  !.signature = result.val]
  /\ UNCHANGED <<utils, workload, now, store, req, hist, configVars, clientVars>>

CallParseCBORKey ==
  /\ fnCall.fn = "parseCBORKey" /\ fnCall.pc = "called"
  /\ LET result == parseCBORKey(fnCall.keyHex)
     IN  fnCall' = [fnCall EXCEPT !.pc = "returned", !.threw = ~result.ok,
                                  !.key = result.val]
  /\ UNCHANGED <<utils, workload, now, store, req, hist, configVars, clientVars>>

CallSignatureFallback ==
  /\ fnCall.fn = "signatureFallback" /\ fnCall.pc = "called"
  /\ LET result == signatureFallback(fnCall.bytes)
     IN  fnCall' = [fnCall EXCEPT !.pc = "returned", !.threw = ~result.ok,
                                  !.window = result.val]
  /\ UNCHANGED <<utils, workload, now, store, req, hist, configVars, clientVars>>

CallKeyFallback ==
  /\ fnCall.fn = "keyFallback" /\ fnCall.pc = "called"
  /\ LET result == keyFallback(fnCall.bytes)
     IN  fnCall' = [fnCall EXCEPT !.pc = "returned", !.threw = ~result.ok,
                                  !.window = result.val]
  /\ UNCHANGED <<utils, workload, now, store, req, hist, configVars, clientVars>>

CallVerificationFailed ==
  /\ fnCall.fn = "verificationFailed" /\ fnCall.pc = "called"
  /\ LET res == verificationFailed(fnCall.error)
     IN  fnCall' = [fnCall EXCEPT !.pc = "returned", !.status = res.status,
                                  !.body = res.error]
  /\ UNCHANGED <<utils, workload, now, store, req, hist, configVars, clientVars>>

----------------------------------------------------------------------------
(* The page: client/script.js *)

DETECT_DELAY == 3000
RETRIES == 10

\* detectWallets has no retry limit: the model stops after this many checks.
MaxDetectChecks == 3

WalletKeys == {"nami", "eternl"}

\* wallet.key.toLowerCase()
toLowerCase(key) == IF key = "Nami" THEN "nami" ELSE key

\* config.supportedWallets in the answers to GET /api/wallet-config.
SupportedWallets == {<<>>, <<"Nami">>, <<"Nami", "eternl">>}

BindClicks == {"b1", "b2"}

\* window.cardano
NoCardano == [defined |-> FALSE, keys |-> {}]

\* return window.cardano && window.cardano[walletKey]
isWalletInstalled(walletKey) == cardano.defined /\ walletKey \in cardano.keys

\* A call of checkWalletInstallation: its arguments, its retries variable, and
\* what each run of check() found.
NoInstallation ==
  [walletKey |-> "", given |-> 0, retries |-> 0, seen |-> <<>>,
   result |-> "none"]

checkWalletInstallation(walletKey, retries) ==
  [walletKey |-> walletKey, given |-> retries, retries |-> retries,
   seen |-> <<>>, result |-> "pending"]

\* The latest POST /api/verify-wallet of the page: the text that was given to
\* the wallet, and the body that was sent.
NoRequest ==
  [sent |-> FALSE, signed |-> NoText, address |-> NoAddress,
   message |-> NoText]

\* The closure of the DOMContentLoaded handler.  null is NoAddress, NoText or
\* FALSE.  `responses` holds the messages of the successful auth-challenge
\* responses received so far.
NoPage ==
  [pc |-> "check", detectChecks |-> 0, time |-> 0, listening |-> FALSE,
   configRequested |-> FALSE, wallets |-> <<>>,
   installation |-> NoInstallation, buttons |-> <<>>,
   selectedWallet |-> FALSE, userAddress |-> NoAddress,
   challengeData |-> NoText, connect |-> "idle",
   bind |-> [b \in BindClicks |-> "idle"], sign |-> "idle",
   signing |-> NoText, responses |-> {}, request |-> NoRequest]

serverVars == <<utils, workload, now, store, req, hist, configVars, fnCall>>

\* A wallet extension defines window.cardano, or adds its entry to it.
Inject ==
  /\ \E ks \in SUBSET WalletKeys :
       /\ ~cardano.defined \/ ~(ks \subseteq cardano.keys)
       /\ cardano' = [defined |-> TRUE, keys |-> cardano.keys \cup ks]
  /\ UNCHANGED <<page, serverVars>>

\* A check() that gives up after the first retry.
DetectCheckLimited ==
  /\ page.pc = "check"
  /\ page' = IF cardano.defined \/ page.detectChecks >= 1
             THEN [page EXCEPT !.pc = "config", !.listening = TRUE,
                               !.configRequested = TRUE,
                               !.detectChecks = @ + 1]
             ELSE [page EXCEPT !.pc = "timer", !.detectChecks = @ + 1]
  /\ UNCHANGED <<cardano, serverVars>>

\* check() of detectWallets.  When it resolves, the DOMContentLoaded handler
\* goes on: it attaches the click listeners and calls loadWalletConfig, which
\* sends GET /api/wallet-config.
DetectCheck ==
  /\ page.pc = "check"
  /\ page' = IF cardano.defined
             THEN [page EXCEPT !.pc = "config", !.listening = TRUE,
                               !.configRequested = TRUE,
                               !.detectChecks = @ + 1]
             ELSE [page EXCEPT !.pc = "timer", !.detectChecks = @ + 1]
  /\ UNCHANGED <<cardano, serverVars>>

\* setTimeout(check, 3000)
DetectTimer ==
  /\ page.pc = "timer"
  /\ page.detectChecks < MaxDetectChecks
  /\ page' = [page EXCEPT !.pc = "check", !.time = @ + DETECT_DELAY]
  /\ UNCHANGED <<cardano, serverVars>>

\* loadWalletConfig after the fetch: renderWalletButtons(supportedWallets)
\* empties the button list and checks the first wallet; a failed fetch, or an
\* answer without supportedWallets, renders nothing.
ConfigResponse ==
  /\ page.pc = "config"
  /\ \/ \E ws \in SupportedWallets :
          page' = IF ws = <<>>
                  THEN [page EXCEPT !.pc = "ready", !.buttons = <<>>]
                  ELSE [page EXCEPT
                          !.pc = "installCheck", !.buttons = <<>>,
                          !.wallets = ws,
                          !.installation =
                            checkWalletInstallation(toLowerCase(ws[1]), RETRIES)]
     \/ page' = [page EXCEPT !.pc = "ready"]
  /\ UNCHANGED <<cardano, serverVars>>

\* check() with `retries >= 0` for `retries > 0`
InstallCheckOffByOne ==
  /\ page.pc = "installCheck"
  /\ LET c == page.installation
         found == isWalletInstalled(c.walletKey)
         seen == Append(c.seen, found)
     IN  page' =
           IF found
           THEN [page EXCEPT !.pc = "resolved",
                             !.installation.seen = seen,
                             !.installation.result = "true"]
           ELSE IF c.retries >= 0
           THEN [page EXCEPT !.pc = "installTimer",
                             !.installation.seen = seen,
                             !.installation.retries = @ - 1]
           ELSE [page EXCEPT !.pc = "resolved",
                             !.installation.seen = seen,
                             !.installation.result = "false"]
  /\ UNCHANGED <<cardano, serverVars>>

\* check() of checkWalletInstallation
InstallCheck ==
  /\ page.pc = "installCheck"
  /\ LET c == page.installation
         found == isWalletInstalled(c.walletKey)
         seen == Append(c.seen, found)
     IN  page' =
           IF found
           THEN [page EXCEPT !.pc = "resolved",
                             !.installation.seen = seen,
                             !.installation.result = "true"]
           ELSE IF c.retries > 0
           THEN [page EXCEPT !.pc = "installTimer",
                             !.installation.seen = seen,
                             !.installation.retries = @ - 1]
           ELSE [page EXCEPT !.pc = "resolved",
                             !.installation.seen = seen,
                             !.installation.result = "false"]
  /\ UNCHANGED <<cardano, serverVars>>

\* setTimeout(check, delay)
InstallTimer ==
  /\ page.pc = "installTimer"
  /\ page' = [page EXCEPT !.pc = "installCheck"]
  /\ UNCHANGED <<cardano, serverVars>>

\* renderWalletButtons after `await checkWalletInstallation(walletKey)`: one
\* button is appended, and the next wallet is checked.
RenderButton ==
  /\ page.pc = "resolved"
  /\ LET button == [walletKey |-> page.installation.walletKey,
                    isInstalled |-> page.installation.result = "true"]
         rest == Tail(page.wallets)
     IN  page' =
           IF rest = <<>>
           THEN [page EXCEPT !.pc = "ready", !.wallets = rest,
                             !.buttons = Append(@, button)]
           ELSE [page EXCEPT
                   !.pc = "installCheck", !.wallets = rest,
                   !.buttons = Append(@, button),
                   !.installation =
                     checkWalletInstallation(toLowerCase(rest[1]), RETRIES)]
  /\ UNCHANGED <<cardano, serverVars>>

\* The user clicks once the page has rendered its buttons.
\* A click on a 'Connect with' button: connectWallet up to `await
\* walletAPI.enable()`.
ClickConnect ==
  /\ page.pc = "ready"
  /\ page.connect = "idle"
  /\ \E i \in DOMAIN page.buttons :
       /\ page.buttons[i].isInstalled
       /\ isWalletInstalled(page.buttons[i].walletKey)
  /\ page' = [page EXCEPT !.connect = "enabling"]
  /\ UNCHANGED <<cardano, serverVars>>

\* enable() resolves with the wallet API, or the user refuses.
EnableSettles ==
  /\ page.connect = "enabling"
  /\ \/ page' = [page EXCEPT !.connect = "addresses",
                             !.selectedWallet = TRUE]
     \/ page' = [page EXCEPT !.connect = "idle"]
  /\ UNCHANGED <<cardano, serverVars>>

\* getUsedAddresses / getUnusedAddresses resolve with an address or with
\* none.
AddressesSettle ==
  /\ page.connect = "addresses"
  /\ \/ page' = [page EXCEPT !.connect = "idle", !.userAddress = AddrV]
     \/ page' = [page EXCEPT !.connect = "idle"]
  /\ UNCHANGED <<cardano, serverVars>>

\* A click on bindWalletBtn: the handler up to the fetch of
\* POST /api/auth-challenge.
ClickBind(b) ==
  /\ page.pc = "ready"
  /\ page.listening
  /\ page.bind[b] = "idle"
  /\ page.userAddress # NoAddress
  /\ page' = [page EXCEPT !.bind[b] = "fetching"]
  /\ UNCHANGED <<cardano, serverVars>>

\* The handler after the fetch: a response that is ok is kept in
\* challengeData.
BindResponse(b) ==
  /\ page.bind[b] = "fetching"
  /\ \/ \E rnd \in RandomValues :
          LET message == ChallengeMessage(generateNonce(rnd))
          IN  page' = [page EXCEPT !.bind[b] = "idle",
                                   !.challengeData = message,
                                   !.responses = @ \cup {message}]
     \/ page' = [page EXCEPT !.bind[b] = "idle"]
  /\ UNCHANGED <<cardano, serverVars>>

\* A click on signButton: the handler up to `await
\* selectedWallet.signData(userAddress, challengeData.message)`.
ClickSign ==
  /\ page.pc = "ready"
  /\ page.listening
  /\ page.sign = "idle"
  /\ page.challengeData # NoText /\ page.selectedWallet
  /\ page' = [page EXCEPT !.sign = "signing",
                          !.signing = page.challengeData]
  /\ UNCHANGED <<cardano, serverVars>>

\* The handler after signData: the body of POST /api/verify-wallet is built
\* from userAddress and challengeData as they are now.
SignSettles ==
  /\ page.sign = "signing"
  /\ \/ page' = [page EXCEPT
                   !.sign = "verifying",
                   !.request = [sent |-> TRUE, signed |-> page.signing,
                                address |-> page.userAddress,
                                message |-> page.challengeData]]
     \/ page' = [page EXCEPT !.sign = "idle"]
  /\ UNCHANGED <<cardano, serverVars>>

\* The handler after the fetch of POST /api/verify-wallet.
VerifyResponse ==
  /\ page.sign = "verifying"
  /\ page' = [page EXCEPT !.sign = "idle"]
  /\ UNCHANGED <<cardano, serverVars>>

----------------------------------------------------------------------------
(* Specifications *)

InitConfig ==
  /\ walletConfig = NoConfig
  /\ loadCount = 0
  /\ configReq = [g \in ConfigRequests |-> FreeConfigReq]

InitState ==
  /\ utils \in {"auth-utils.js", "index.js"}
  /\ now = 0
  /\ store = [s \in SessionIds |-> NoSession]
  /\ req = [r \in Requests |-> FreeReq]
  /\ hist = [s \in SessionIds |-> NoHist]
  /\ InitConfig
  /\ file = "config"
  /\ fnCall = NoCall
  /\ cardano = NoCardano
  /\ page = NoPage

Init == InitState /\ workload = "seq"

InitConc == InitState /\ workload = "conc"

InitLive == InitState /\ workload = "live"

Next ==
  \/ \E r \in Requests : ReceiveChallenge(r)
  \/ \E r \in Requests : ReceiveVerify(r)
  \/ \E r \in Requests : HandleChallenge(r)
  \/ \E r \in Requests : CheckVerify(r)
  \/ \E r \in Requests : ResumeVerify(r)
  \/ \E r \in Requests : Release(r)
  \/ Tick

Spec == Init /\ [][Next]_vars

SpecConc == InitConc /\ [][Next]_vars

\* The event loop runs every callback that is ready: a received request is
\* handled, and a handler stopped at an await whose promise is settled is
\* resumed.
Fairness ==
  \A r \in Requests :
    /\ WF_vars(HandleChallenge(r))
    /\ WF_vars(CheckVerify(r))
    /\ WF_vars(ResumeVerify(r))

SpecFair == InitLive /\ [][Next]_vars /\ Fairness

\* The server answering GET /api/wallet-config only.
InitWalletConfig ==
  /\ utils = "auth-utils.js"
  /\ workload = "config"
  /\ now = 0
  /\ store = [s \in SessionIds |-> NoSession]
  /\ req = [r \in Requests |-> FreeReq]
  /\ hist = [s \in SessionIds |-> NoHist]
  /\ InitConfig
  /\ file \in FileContents
  /\ fnCall = NoCall
  /\ cardano = NoCardano
  /\ page = NoPage

NextWalletConfig ==
  \/ \E g \in ConfigRequests : GetWalletConfig(g)
  \/ \E g \in ConfigRequests : ResumeWalletConfig(g)
  \/ \E g \in ConfigRequests : ReleaseConfig(g)

SpecWalletConfig == InitWalletConfig /\ [][NextWalletConfig]_vars

\* The helper functions, each called once on an argument.
InitHelpers ==
  /\ utils = "auth-utils.js"
  /\ workload = "helpers"
  /\ now = 0
  /\ store = [s \in SessionIds |-> NoSession]
  /\ req = [r \in Requests |-> FreeReq]
  /\ hist = [s \in SessionIds |-> NoHist]
  /\ InitConfig
  /\ file = "config"
  /\ cardano = NoCardano
  /\ page = NoPage
  /\ \/ \E b \in SignatureBlobs :
          fnCall = [Called("parseCBORSignature") EXCEPT !.signatureHex = b]
     \/ \E b \in KeyBlobs :
          fnCall = [Called("parseCBORKey") EXCEPT !.keyHex = b]
     \/ \E b \in SignatureBytes :
          fnCall = [Called("signatureFallback") EXCEPT !.bytes = b]
     \/ \E b \in KeyBytes :
          fnCall = [Called("keyFallback") EXCEPT !.bytes = b]
     \/ \E e \in Errors :
          fnCall = [Called("verificationFailed") EXCEPT !.error = e]

NextHelpers ==
  \/ CallParseCBORSignature
  \/ CallParseCBORKey
  \/ CallSignatureFallback
  \/ CallKeyFallback
  \/ CallVerificationFailed

SpecHelpers == InitHelpers /\ [][NextHelpers]_vars

\* The page in a browser, from DOMContentLoaded on.
InitClient == InitState /\ workload = "client" /\ utils = "auth-utils.js"

NextClient ==
  \/ Inject
  \/ DetectCheck
  \/ DetectTimer
  \/ ConfigResponse
  \/ InstallCheck
  \/ InstallTimer
  \/ RenderButton
  \/ ClickConnect
  \/ EnableSettles
  \/ AddressesSettle
  \/ \E b \in BindClicks : ClickBind(b)
  \/ \E b \in BindClicks : BindResponse(b)
  \/ ClickSign
  \/ SignSettles
  \/ VerifyResponse

SpecClient == InitClient /\ [][NextClient]_vars

\* checkWalletInstallation called on its own, while extensions load.
InitInstallation ==
  /\ utils = "auth-utils.js"
  /\ workload = "installation"
  /\ now = 0
  /\ store = [s \in SessionIds |-> NoSession]
  /\ req = [r \in Requests |-> FreeReq]
  /\ hist = [s \in SessionIds |-> NoHist]
  /\ InitConfig
  /\ file = "config"
  /\ fnCall = NoCall
  /\ cardano \in {NoCardano} \cup
                  {[defined |-> TRUE, keys |-> ks] : ks \in SUBSET WalletKeys}
  /\ \E walletKey \in WalletKeys, retries \in 0..RETRIES :
       page = [NoPage EXCEPT
                 !.pc = "installCheck",
                 !.installation = checkWalletInstallation(walletKey, retries)]

NextInstallation ==
  \/ Inject
  \/ InstallCheck
  \/ InstallTimer

\* A timer that was set fires.
FairnessInstallation ==
  /\ WF_vars(InstallCheck)
  /\ WF_vars(InstallTimer)

SpecInstallation ==
  InitInstallation /\ [][NextInstallation]_vars /\ FairnessInstallation

----------------------------------------------------------------------------
(* Properties *)

VerifyDone(r) == req[r].pc = "done" /\ req[r].kind = "verify"
ChallengeDone(r) == req[r].pc = "done" /\ req[r].kind = "challenge"

IsBound(r) == VerifyDone(r) /\ req[r].status = 200
IsRejected(r) == VerifyDone(r) /\ req[r].status \in {400, 401}

\* Both blobs were decoded by the verifySignature in use.
Decoded(signature, key) ==
  IF utils = "auth-utils.js"
  THEN parseCBORSignature(signature).ok /\ parseCBORKey(key).ok
  ELSE /\ signature.cbor = "array" /\ signature.n >= 4
       /\ parseCBORKeyCOSE(key).ok

\* The calls of publicKey.verify made for request r, and the last of them:
\* the one that verified, when r was bound.
CallsOf(r) ==
  verifyCalls(req[r].body.address, req[r].body.signature, req[r].body.key,
              req[r].body.message, req[r].body.messageHex)

VerifiedCall(r) == CallsOf(r)[Len(CallsOf(r))]

\* C1: a verification request is answered 200 {success: true} only if its
\* session held a nonce, the submitted address was the session's address,
\* the challenge was at most TTL_MS old when the handler checked it, both
\* blobs were decoded and verifySignature returned true.
C1_BoundOnlyAfterAllChecks ==
  \A r \in Requests :
    IsBound(r) =>
      /\ ~Falsy(req[r].session.nonce)
      /\ req[r].body.address = req[r].session.address
      /\ req[r].at - req[r].session.timestamp <= TTL_MS
      /\ Decoded(req[r].body.signature, req[r].body.key)
      /\ req[r].consulted
      /\ verifySignature(req[r].body.address, req[r].body.signature,
                         req[r].body.key, req[r].body.message,
                         req[r].body.messageHex) = Returned(TRUE)

\* A request was bound after its session had been renewed by an earlier
\* rejected attempt.
C1_Witness ==
  \E r \in Requests : IsBound(r) /\ req[r].prior.rejected

\* C2: after the response of a rejected verification request the session
\* holds no stored nonce.
C2_RejectedDestroysSession ==
  \A r \in Requests : IsRejected(r) => Falsy(req[r].after.nonce)

\* C3: a verification request is not bound when an earlier attempt on its
\* session was rejected and no challenge was issued to the session since.
C3_NoBoundAfterRejected ==
  \A r \in Requests : IsBound(r) => ~req[r].prior.rejected

\* C4: a verification request on a session on which an attempt has ended
\* (bound or rejected) since its last challenge is answered 400.
C4_SecondAttemptIsSessionError ==
  \A r \in Requests :
    VerifyDone(r) /\ req[r].prior.attempted => req[r].status = 400

\* C5: of the verification requests racing on one session with one proof,
\* at most one is bound per issued challenge.
C5_AtMostOneBound ==
  \A s \in SessionIds : hist[s].bound <= 1

\* C6: a verification request handled more than TTL_MS after its session's
\* challenge was issued is answered 400, leaves the session destroyed and
\* never reaches verifySignature.
C6_ExpiredIsRejectedAndDestroyed ==
  \A r \in Requests :
    ( /\ VerifyDone(r)
      /\ ~Falsy(req[r].session.nonce)
      /\ req[r].at - req[r].session.timestamp > TTL_MS )
    => /\ req[r].status = 400
       /\ ~req[r].consulted
       /\ Falsy(req[r].after.nonce)

\* C7: a proof whose signature was made over the challenge of nonce n1 is
\* not bound on a session whose stored nonce is another one, whatever the
\* message and messageHex fields of the request.
C7_NoReplayAcrossNonces ==
  \A r \in Requests :
    IsBound(r) =>
      VerifiedCall(r).signature.data.text.nonce = req[r].session.nonce

\* C8: verifySignature returns false when the text of the envelope's
\* payload differs from the expected message.
C8_PayloadMustBeTheMessage ==
  \A r \in Requests :
    ( /\ req[r].consulted
      /\ req[r].body.signature.cbor = "array"
      /\ toStringUtf8(req[r].body.signature.payload) # req[r].body.message )
    => ~req[r].isValid

\* C9: a request is bound for address A only on a signature that verifies
\* under the key belonging to A.
C9_BoundKeyBelongsToAddress ==
  \A r \in Requests :
    IsBound(r) =>
      /\ VerifiedCall(r).publicKey.key = req[r].body.address.pkh
      /\ VerifiedCall(r).signature.key = req[r].body.address.pkh

\* C10: a successful challenge response carries the message "Sign this
\* message to authenticate: " followed by the nonce, the nonce has 32
\* lowercase hex characters, and the session stores that nonce, so that
\* the expected message of the verify handler is the message returned.
C10_ChallengeResponse ==
  \A r \in Requests :
    ChallengeDone(r) /\ req[r].status = 200 =>
      /\ req[r].resMessage.prefix = "Sign this message to authenticate: "
      /\ req[r].resMessage.nonce = req[r].resNonce
      /\ req[r].resNonce.len = 32
      /\ req[r].resNonce.lower
      /\ req[r].after.nonce = req[r].resNonce
      /\ ChallengeMessage(req[r].after.nonce) = req[r].resMessage

\* A challenge was issued on a session that already held one.
C10_Witness ==
  \E r \in Requests :
    /\ ChallengeDone(r) /\ req[r].status = 200
    /\ req[r].known
    /\ req[r].resNonce = N2

C18_MissingAddressIsRejected ==
  \A r \in Requests :
    ( /\ ChallengeDone(r)
      /\ req[r].body.address \in
           {NoAddress, NullAddress, NumberAddress, EmptyAddress} )
    => /\ validateAddress(req[r].body.address) = Returned(FALSE)
       /\ req[r].status = 400

\* C19: validateAddress returns true exactly for the strings that are
\* "addr1" or "addr_test1" followed by lowercase alphanumerics, of 50 to
\* 120 characters in all, or 56 to 116 hexadecimal characters.
C19_AcceptsExactlyTheGrammars ==
  \A r \in Requests :
    LET address == req[r].body.address
        total == Len(address.prefix) + address.len
        prefixed == /\ address.prefix \in {"addr1", "addr_test1"}
                    /\ address.chars \in LowerAlnumClasses
                    /\ address.len >= 1
                    /\ total >= 50 /\ total <= 120
        rawHex == /\ address.prefix = ""
                  /\ address.chars \in HexClasses
                  /\ address.len >= 56 /\ address.len <= 116
    IN  ChallengeDone(r) /\ address.type = "string" =>
          validateAddress(address) = Returned(prefixed \/ rawHex)

\* C12: on a session to which two or more challenges were issued, a
\* request is bound only on a proof signed over the message of the nonce
\* the session holds, that of the latest challenge, and at most TTL_MS
\* after that challenge was issued.
C12_OnlyLatestChallengeBinds ==
  \A r \in Requests :
    IsBound(r) /\ req[r].prior.issued >= 2 =>
      /\ VerifiedCall(r).signature.data.text.nonce = req[r].session.nonce
      /\ req[r].at - req[r].session.timestamp <= TTL_MS

\* C13: the promise of every verifySignature call is fulfilled, never
\* rejected, also when a blob cannot be decoded or has the wrong length.
C13_VerifySignatureNeverThrows ==
  \A r \in Requests : req[r].consulted => ~req[r].threw

\* A call whose try block threw before any publicKey.verify.
C13_Witness ==
  \E r \in Requests :
    /\ req[r].consulted /\ CallsOf(r) = <<>>
    /\ req[r].body.key = ShortKeyBlob

C15_VerifyGetsExactLengths ==
  \A r \in Requests :
    req[r].consulted =>
      /\ \A i \in DOMAIN CallsOf(r) :
           /\ CallsOf(r)[i].signature.len = SIG_LEN
           /\ CallsOf(r)[i].publicKey.len = KEY_LEN
      /\ ( /\ req[r].body.signature.cbor = "array"
            /\ req[r].body.signature.sig.len # SIG_LEN )
         => CallsOf(r) = <<>> /\ ~req[r].isValid

\* An envelope with a 63-byte signature item was refused.
C15_Witness ==
  \E r \in Requests :
    /\ VerifyDone(r) /\ req[r].status = 401
    /\ req[r].body.signature = WrongLengthProof(N1, "KV")

\* C16: for a signature blob of at least 64 bytes and a key blob of at
\* least 32 bytes, verifySignature reaches publicKey.verify.
C16_LongEnoughBlobsAreDecoded ==
  \A r \in Requests :
    ( /\ req[r].consulted
      /\ req[r].body.signature.rawLen >= SIG_LEN
      /\ req[r].body.key.rawLen >= KEY_LEN )
    => CallsOf(r) # <<>>

\* C17: when a request is bound, any other proof for the same address and
\* message that verifySignature accepts through another candidate than
\* the one that matched for this request gets a different result: from
\* verifySignature, or in the response body.
C17_ConventionIsObservable ==
  \A r \in Requests :
    IsBound(r) =>
      \A b \in VerifyBodies :
        LET result == verifySignature(b.address, b.signature, b.key,
                                      b.message, b.messageHex)
            calls == verifyCalls(b.address, b.signature, b.key,
                                 b.message, b.messageHex)
        IN  ( /\ b.address = req[r].body.address
              /\ b.message = req[r].body.message
              /\ result = Returned(TRUE)
              /\ calls[Len(calls)].name # VerifiedCall(r).name )
            => \/ result # Returned(req[r].isValid)
               \/ BoundResponse(b.address) # req[r].resBody

\* C20: a verification request whose envelope has the four fields, the
\* expected message as payload and a signature over its Sig_structure made
\* with the key of the submitted COSE key, and that passes the session
\* checks, has verifySignature return true and is answered 200.
C20_CanonicalRoundTrip ==
  \A r \in Requests :
    LET b == req[r].body
    IN  ( /\ VerifyDone(r)
          /\ req[r].consulted
          /\ b.signature.cbor = "array" /\ b.signature.n = 4
          /\ toStringUtf8(b.signature.payload) = b.message
          /\ b.key.cbor = "map" /\ b.key.kid = -2
          /\ b.key.x.key \in Keys
          /\ b.signature.sig =
               Sign(b.key.x.key,
                    createCOSESign1SigStructure(b.signature.prot, EmptyAAD,
                                                b.signature.payload)) )
        => /\ req[r].isValid
           /\ req[r].status = 200
           /\ req[r].resBody = BoundResponse(b.address)

\* C21: when a request is bound on a canonical envelope (four fields, the
\* signature made with the submitted key over the Sig_structure of its
\* protected headers and payload), the same request with any other 64-byte
\* value as signature item makes verifySignature return false.
C21_TamperedSignatureFails ==
  \A r \in Requests :
    LET b == req[r].body
    IN  ( /\ IsBound(r)
          /\ b.signature.cbor = "array" /\ b.signature.n = 4
          /\ b.signature.sig =
               Sign(b.key.x.key,
                    createCOSESign1SigStructure(b.signature.prot, EmptyAAD,
                                                b.signature.payload)) )
        => \A sig \in SignatureValues \ {b.signature.sig} :
             verifySignature(b.address, [b.signature EXCEPT !.sig = sig],
                             b.key, b.message, b.messageHex)
               = Returned(FALSE)

\* C22: a step changes the stored nonce, address or timestamp of a session
\* only when it is the answer to a request of that session, or the store
\* dropping the session because its cookie has expired; a request is given
\* the stored session of its own session id, and its proof is checked
\* against the message of the nonce of that session.
C22_SessionsAreIndependent ==
  [][ /\ \A t \in SessionIds :
           ( \/ store'[t].nonce # store[t].nonce
             \/ store'[t].address # store[t].address
             \/ store'[t].timestamp # store[t].timestamp )
           => \/ /\ store[t].exists /\ store[t].expires <= now
                 /\ store'[t] = NoSession
              \/ \E r \in Requests :
                   /\ req[r].sid = t
                   /\ req[r].pc \in {"challenge", "verify", "awaiting"}
                   /\ req'[r].pc = "done"
      /\ \A r \in Requests :
           /\ ( req[r].pc = "free" /\ req'[r].pc # "free" )
                => req'[r].session = store'[req'[r].sid]
           /\ req'[r].consulted
                => req'[r].body.message =
                     ChallengeMessage(req'[r].session.nonce)
    ]_vars

\* A request was bound on one session while the other session holds a
\* challenge for the same address with another nonce.
C22_Witness ==
  \E r \in Requests :
    /\ IsBound(r) /\ req[r].sid = "s1"
    /\ store["s2"].exists
    /\ store["s2"].address = req[r].body.address
    /\ store["s2"].nonce \in Nonces \ {req[r].session.nonce}

\* C23: over any requests of GET /api/wallet-config, loadWalletConfig is
\* called at most once, and all responses of status 200 carry the same
\* configuration.
C23_ConfigLoadedOnce ==
  /\ loadCount <= 1
  /\ \A g, h \in ConfigRequests :
       ( /\ configReq[g].pc = "done" /\ configReq[g].status = 200
         /\ configReq[h].pc = "done" /\ configReq[h].status = 200 )
       => configReq[g].resBody = configReq[h].resBody

C25_DecodersInPriorityOrder ==
  /\ ( fnCall.fn = "parseCBORSignature" /\ fnCall.pc = "returned" )
     => LET b == fnCall.signatureHex
            canonicalShape == b.cbor = "array" /\ b.n >= 4
            lookup == b.cbor = "map" /\ b.mapKey \in {"signature", "3"}
            returned(sig) == ~fnCall.threw /\ fnCall.signature = sig
        IN  /\ canonicalShape /\ returned(b.sig) => b.sig.len = SIG_LEN
            /\ canonicalShape /\ b.sig.len = SIG_LEN => returned(b.sig)
            /\ lookup /\ returned(b.sig) => ~canonicalShape
            /\ returned(b.scan)
                 => /\ ~(canonicalShape /\ b.sig.len = SIG_LEN)
                    /\ ~lookup
  /\ ( fnCall.fn = "parseCBORKey" /\ fnCall.pc = "returned" )
     => LET b == fnCall.keyHex
            canonicalShape == b.cbor = "map" /\ b.kid = -2
            lookup == \/ b.cbor = "map" /\ b.kid \in {-3, 1, 2, 3}
                      \/ /\ b.cbor = "object"
                         /\ b.prop \in {"publicKey", "-2", "-3", "1", "2"}
            returned(key) == ~fnCall.threw /\ fnCall.key = key
        IN  /\ canonicalShape /\ returned(b.x) => b.x.len = KEY_LEN
            /\ canonicalShape /\ b.x.len = KEY_LEN => returned(b.x)
            /\ lookup /\ returned(b.x) => ~canonicalShape
            /\ returned(b.scan)
                 => /\ ~(canonicalShape /\ b.x.len = KEY_LEN)
                    /\ ~(lookup /\ b.x.len = KEY_LEN)

\* C26: the fallback of parseCBORSignature returns the 64-byte window at
\* the lowest offset whose first 8 bytes hold fewer than 4 zero bytes;
\* when no window is such and the blob has 64 bytes or more, its last 64
\* bytes; and it throws exactly when the blob has fewer than 64 bytes.
C26_SignatureFallbackWindow ==
  ( fnCall.fn = "signatureFallback" /\ fnCall.pc = "returned" )
  => LET bytes == fnCall.bytes
         taken == {i \in 0 .. Len(bytes) - SIG_LEN :
                     Cardinality({j \in 1 .. 8 : bytes[i + j] = 0}) < 4}
         lowest == CHOOSE i \in taken : \A j \in taken : i <= j
     IN  /\ taken # {}
              => /\ ~fnCall.threw
                 /\ fnCall.window = SubSeq(bytes, lowest + 1, lowest + SIG_LEN)
         /\ taken = {} /\ Len(bytes) >= SIG_LEN
              => /\ ~fnCall.threw
                 /\ fnCall.window =
                      SubSeq(bytes, Len(bytes) - SIG_LEN + 1, Len(bytes))
         /\ fnCall.threw <=> Len(bytes) < SIG_LEN

\* Six zero bytes, sixty ones, four zeros: the windows at offsets 0 to 2
\* start with four zeros or more, the window at offset 3 is returned.
C26_Witness ==
  /\ fnCall.fn = "signatureFallback" /\ fnCall.pc = "returned"
  /\ fnCall.bytes = Run(0, 6) \o Run(1, 60) \o Run(0, 4)
  /\ ~fnCall.threw
  /\ fnCall.window = Run(0, 3) \o Run(1, 60) \o Run(0, 1)

\* C27: the fallback of parseCBORKey returns the 32-byte window at the
\* lowest offset that holds fewer than 16 zero bytes and fewer than 16
\* 0xFF bytes; when no window is such and the blob has 32 bytes or more,
\* its last 32 bytes; and it throws exactly when the blob has fewer than 32
\* bytes.
C27_KeyFallbackWindow ==
  ( fnCall.fn = "keyFallback" /\ fnCall.pc = "returned" )
  => LET bytes == fnCall.bytes
         count(i, b) == Cardinality({j \in 1 .. KEY_LEN : bytes[i + j] = b})
         taken == {i \in 0 .. Len(bytes) - KEY_LEN :
                     count(i, 0) < 16 /\ count(i, 255) < 16}
         lowest == CHOOSE i \in taken : \A j \in taken : i <= j
     IN  /\ taken # {}
              => /\ ~fnCall.threw
                 /\ fnCall.window = SubSeq(bytes, lowest + 1, lowest + KEY_LEN)
         /\ taken = {} /\ Len(bytes) >= KEY_LEN
              => /\ ~fnCall.threw
                 /\ fnCall.window =
                      SubSeq(bytes, Len(bytes) - KEY_LEN + 1, Len(bytes))
         /\ fnCall.threw <=> Len(bytes) < KEY_LEN

\* Sixteen zero bytes, fifteen 0xFF bytes, sixteen ones: the window at
\* offset 0 holds sixteen zeros, the window at offset 1 is returned.
C27_Witness ==
  /\ fnCall.fn = "keyFallback" /\ fnCall.pc = "returned"
  /\ fnCall.bytes = Run(0, 16) \o Run(255, 15) \o Run(1, 16)
  /\ ~fnCall.threw
  /\ fnCall.window = Run(0, 15) \o Run(255, 15) \o Run(1, 2)

\* C28: the verifySignature that does not rebuild the Sig_structure calls
\* publicKey.verify only on the hex-decoded expected message and on its
\* UTF-8 bytes, and returns true exactly when the parsed signature verifies
\* on one of the two under the parsed key.
C28_OnlyEnumeratedCandidates ==
  \A r \in Requests :
    ( req[r].consulted /\ utils = "auth-utils.js" )
    => LET b == req[r].body
           expected == ChallengeMessage(req[r].session.nonce)
           candidates == { BufferFromHex(stringToHex(expected)),
                           BufferFromUtf8(expected) }
           actualSignature == parseCBORSignature(b.signature)
           actualKey == parseCBORKey(b.key)
       IN  /\ \A i \in DOMAIN CallsOf(r) : CallsOf(r)[i].data \in candidates
           /\ req[r].isValid <=>
                /\ actualSignature.ok /\ actualKey.ok
                /\ actualSignature.val.len = SIG_LEN
                /\ actualKey.val.len = KEY_LEN
                /\ \E data \in candidates :
                     PublicKeyVerify(actualKey.val, data, actualSignature.val)

\* C29: a call of publicKey.verify on the Sig_structure is made on the
\* encoding of ["Signature1", field 0 of the envelope, the empty byte
\* string, field 2 of the envelope], and verifySignature returns the same
\* for the envelope with any other unprotected-header field.
C29_UnprotectedHeadersIgnored ==
  \A r \in Requests :
    LET b == req[r].body
    IN  ( req[r].consulted /\ b.signature.cbor = "array" )
        => /\ \A i \in DOMAIN CallsOf(r) :
                CallsOf(r)[i].name = "Sig_structure"
                => CallsOf(r)[i].data =
                     [enc |-> "Sig_structure", ctx |-> "Signature1",
                      prot |-> b.signature.prot, aad |-> "",
                      penc |-> b.signature.payload.enc,
                      addr |-> b.signature.payload.addr,
                      text |-> b.signature.payload.text]
           /\ \A u \in UnprotectedValues :
                verifySignature(b.address, [b.signature EXCEPT !.unprot = u],
                                b.key, b.message, b.messageHex)
                  = Returned(req[r].isValid)

\* A request was bound after its signature verified on the Sig_structure.
C29_Witness ==
  \E r \in Requests :
    /\ IsBound(r)
    /\ Len(CallsOf(r)) = 1
    /\ VerifiedCall(r).name = "Sig_structure"

\* C30: a verification request received exactly TTL_MS after its session's
\* challenge was issued still finds the challenge in its session; the
\* handler takes the expiry branch, which answers 400 and destroys the
\* session, when more than TTL_MS have passed since the challenge, and
\* goes on to the message check when TTL_MS or less have passed.
C30_ExpiryIsStrict ==
  [][\A r \in Requests :
       LET sid == req'[r].sid
           elapsed == now - req[r].session.timestamp
       IN  /\ ( /\ req[r].pc = "free" /\ req'[r].pc = "verify"
                /\ store[sid].exists
                /\ ~Falsy(store[sid].nonce)
                /\ now - store[sid].timestamp = TTL_MS )
              => req'[r].session.nonce = store[sid].nonce
           /\ ( /\ req[r].pc = "verify" /\ req'[r].pc # "verify"
                /\ ~SessionInvalid(req[r].session, req[r].body.address) )
              => /\ elapsed > TTL_MS
                      => /\ req'[r].status = 400
                         /\ ~store'[sid].exists
                 /\ elapsed <= TTL_MS
                      => /\ store[sid].exists => store'[sid].exists
                         /\ \/ req'[r].pc = "awaiting"
                            \/ /\ req'[r].status = 400
                               /\ req[r].body.message #
                                    ChallengeMessage(req[r].session.nonce)
    ]_vars

\* C31: verifySignature is called only for a request that passed the session
\* check, the expiry check and the message check; the checks run in that
\* order (a request failing the session check leaves an expired session in
\* place, a request failing the expiry check has its session destroyed
\* whatever its message), and a request whose message is not the challenge
\* text of the stored nonce gets 400 with no verification.
C31_VerifyAfterChecks ==
  \A r \in Requests :
    req[r].kind = "verify" =>
      LET s == req[r].session
          b == req[r].body
          valid == s.nonce.len > 0 /\ s.address = b.address
          fresh == req[r].at - s.timestamp <= TTL_MS
          echoed == b.message = ChallengeMessage(s.nonce)
      IN  /\ req[r].consulted => valid /\ fresh /\ echoed
          /\ VerifyDone(r) /\ ~echoed =>
               req[r].status = 400 /\ ~req[r].consulted
          /\ VerifyDone(r) /\ ~valid /\ s.exists => req[r].after.exists
          /\ VerifyDone(r) /\ valid /\ ~fresh => ~req[r].after.exists

C31_Witness ==
  \E r \in Requests :
    /\ VerifyDone(r)
    /\ ~SessionInvalid(req[r].session, req[r].body.address)
    /\ ~SessionExpired(req[r].session, req[r].at)
    /\ req[r].body.message # ChallengeMessage(req[r].session.nonce)
    /\ req[r].status = 400
    /\ ~req[r].consulted

\* C32: every POST /api/verify-wallet request is answered, by exactly one
\* res.json call, with status 200, 400, 401 or 500; this includes the
\* requests whose handler destroyed the session before it responded.
C32_OneResponse ==
  /\ [](\A r \in Requests :
          req[r].kind = "verify" =>
            /\ req[r].pc \in {"verify", "awaiting"} => req[r].jsonCalls = 0
            /\ req[r].pc = "done" =>
                 /\ req[r].jsonCalls = 1
                 /\ req[r].status \in {200, 400, 401, 500})
  /\ \A r \in Requests :
       (req[r].pc \in {"verify", "awaiting"}) ~> VerifyDone(r)

\* A request answered after its handler destroyed the expired session.
C32_Witness ==
  \E r \in Requests :
    /\ VerifyDone(r)
    /\ req[r].jsonCalls = 1
    /\ req[r].session.exists
    /\ ~req[r].after.exists
    /\ req[r].status = 400

\* C33: the page sends POST /api/verify-wallet only after a wallet was
\* enabled and a successful auth-challenge response was received, and the
\* message of that response is both the text given to the wallet for signing
\* and the message of the request.
C33_VerifyEchoesSignedChallenge ==
  page.request.sent =>
    /\ page.selectedWallet
    /\ page.request.message \in page.responses
    /\ page.request.signed = page.request.message

\* C34: while window.cardano is undefined the page stays in detectWallets,
\* which checks again 3000 ms after each check however many checks have
\* failed; the wallet configuration is requested, and buttons are rendered,
\* only after a check has found window.cardano.
C34_NoConfigBeforeCardano ==
  /\ page.configRequested => cardano.defined
  /\ page.buttons # <<>> => page.configRequested
  /\ ~cardano.defined =>
       /\ page.pc \in {"check", "timer"}
       /\ ~page.listening
       /\ ~page.configRequested
       /\ page.buttons = <<>>
  /\ page.pc = "check" => page.time = DETECT_DELAY * page.detectChecks
  /\ page.pc = "timer" => page.time = DETECT_DELAY * (page.detectChecks - 1)

C34_Witness ==
  /\ ~cardano.defined
  /\ page.pc = "timer"
  /\ page.detectChecks >= 2
  /\ page.time = DETECT_DELAY
  /\ ~page.configRequested

\* C35: a call of checkWalletInstallation runs check() at most retries + 1
\* times, resolves true at the first check that finds the wallet, resolves
\* false at check retries + 1 when no check found it, and always resolves.
C35_InstallationResolves ==
  /\ [](LET c == page.installation
            n == Len(c.seen)
        IN  /\ n <= c.given + 1
            /\ \A k \in 1..(n - 1) : ~c.seen[k]
            /\ c.result = "true" <=> (n > 0 /\ c.seen[n])
            /\ c.result = "false" => n = c.given + 1
            /\ c.result = "pending" => n <= c.given)
  /\ (page.installation.result = "pending")
       ~> (page.installation.result \in {"true", "false"})

\* The eleventh check of a call with the default retries found nothing.
C35_Witness ==
  /\ page.installation.given = RETRIES
  /\ page.installation.result = "false"
  /\ Len(page.installation.seen) = RETRIES + 1

====
